---------------------------- MODULE Spec2Model ----------------------------
(***************************************************************************)
(* Pixel-perfect camera controller of crlprk/kingdom.                      *)
(*                                                                         *)
(* Two variants of the program exist in the repository: the key-state      *)
(* variant (src/unnamed/part_000: keydown/keyup set keyState, each tick    *)
(* adds one unit per held key) and the key-event variant (src/main.js:     *)
(* every keydown adds 0.9 to the pan accumulator).  The specifications    *)
(* built from start model the former, those built from startMain the       *)
(* latter.                                                                 *)
(*                                                                         *)
(* Number representation.  JavaScript numbers are modelled in fixed point, *)
(* every arithmetic result rounded to the nearest unit:                    *)
(*   zoom levels            in 1/ZoomUnit   (0.01)                         *)
(*   world lengths          in 1/WorldUnit  (0.00001)                      *)
(*   pan accumulator        in 1/OffUnit    (0.1)                          *)
(*   angles                 in degrees (Math.PI / 4 is 45)                 *)
(*   sines, cosines, tan    in 1/TrigUnit   (0.0001)                       *)
(***************************************************************************)
EXTENDS Integers, Sequences, FiniteSets, TLC

VARIABLES
    zoomLevel,            \* let zoomLevel
    targetZoomLevel,      \* let targetZoomLevel
    zoomIndex,            \* let zoomIndex, 0-based as in the source
    keyState,             \* const keyState = {w, a, s, d}
    renderOffset,         \* THREE.Vector3 renderOffset, the pan accumulator
    camera,               \* camera.top/bottom/left/right (the frustum)
    unitPerCameraPixel,   \* let unitPerCameraPixel
    xAngleAdjustedUPCP,   \* let xAngleAdjustedUPCP
    cameraPivot,          \* cameraPivot.position and cameraPivot.rotation.y
    cameraRotation,       \* let cameraRotation
    mouseAction,          \* let mouseAction
    previousMouseX,       \* let previousMouseX
    quadMesh,             \* quadMesh.position
    renderTarget,         \* what pass 1 last drew into the offscreen target
    screen,               \* what pass 2 last drew to the screen
    nInputs,              \* environment: input events delivered so far
    pointerX,             \* environment: clientX of the last mouse event of a drag
    lastKey,              \* environment: key of the last key event delivered
    indexAtTick,          \* environment: zoomIndex as the last observed tick left it
    snapIO,               \* harness of snapToPixelGrid: argument and results
    rampIO                \* harness of createRampTexture: arguments and result

vars == <<zoomLevel, targetZoomLevel, zoomIndex, keyState, renderOffset, camera,
          unitPerCameraPixel, xAngleAdjustedUPCP, cameraPivot, cameraRotation,
          mouseAction, previousMouseX, quadMesh, renderTarget, screen, nInputs,
          pointerX, lastKey, indexAtTick, snapIO, rampIO>>

zoomVars == <<zoomLevel, targetZoomLevel, zoomIndex>>
derivedVars == <<camera, unitPerCameraPixel, xAngleAdjustedUPCP, cameraPivot, quadMesh,
                 renderTarget, screen>>
mouseVars == <<cameraRotation, mouseAction, previousMouseX>>

---------------------------------------------------------------------------
(* Fixed-point resolutions (not program constants, not bounds). *)
ZoomUnit == 10 * 10
WorldUnit == 100 * 1000
OffUnit == 2 * 5
TrigUnit == 100 * 100

(* Bounds of the model. *)
MaxPanPixels == 2      \* |pivot position component| <= MaxPanPixels pixels of zoom level 1
MaxYawSteps == 2       \* |cameraRotation| <= MaxYawSteps * 45 degrees
MaxInputs == 4         \* input events per run in the budgeted specifications
MaxAccum == 3          \* |pan accumulator component| <= MaxAccum (key-event variant)
MaxSnapValue == 12     \* snapToPixelGrid harness: |vector| <= MaxSnapValue
MaxSnapPixel == 6      \* snapToPixelGrid harness: 1 <= pixelSize <= MaxSnapPixel
MaxBreakpoints == 2

---------------------------------------------------------------------------
(* JavaScript Math helpers on fixed-point integers. *)
Abs(x) == IF x < 0 THEN -x ELSE x

Sign(x) == IF x > 0 THEN 1 ELSE IF x < 0 THEN -1 ELSE 0

\* Math.round(n / d) for d > 0: nearest integer, halves toward +infinity.
JSRound(n, d) == (2 * n + d) \div (2 * d)

\* n / d (d > 0) as a fixed-point result: rounded to the nearest unit.
RoundDiv(n, d) == (2 * n + d) \div (2 * d)

Vec3(x, y, z) == [x |-> x, y |-> y, z |-> z]

---------------------------------------------------------------------------
(* Program constants. *)
\* Variant of zoomLevels: adjacent levels no farther apart than the Idle
\* threshold.
zoomLevelsClose == <<ZoomUnit - ZoomUnit \div 10, ZoomUnit, ZoomUnit + ZoomUnit \div 10,
                     ZoomUnit + 2 * (ZoomUnit \div 10)>>

zoomLevels == <<ZoomUnit \div 2, ZoomUnit, 2 * ZoomUnit, 4 * ZoomUnit>>

\* The source indexes zoomLevels from 0; Sequences index from 1.
ZoomLevelAt(i) == zoomLevels[i + 1]

ZoomThreshold == ZoomUnit \div 10          \* the 0.1 of onMouseScroll
LerpDen == 10                              \* lerp factor 0.1 = 1 / LerpDen
TargetHeight == 324                        \* renderTarget.height
BaseFrustum == 10                          \* frustumSize = 10 / zoomLevel
Aspect == 2
TiltDegrees == 30                          \* -camera.rotation.x = PI / 6
RotateThreshold == 40                      \* pixels of drag per yaw step
YawStep == 45                              \* Math.PI / 4


\* Keys and pointer positions the environment delivers.
Keys == {"w", "a", "s", "d", "W", "q"}
PanKeys == {"w", "a", "s", "d"}
ClientXs == {0, 40, 81}      \* displacements of 40, 41 and 81 pixels
DeltaYs == {-100, 0, 100}

---------------------------------------------------------------------------
(* Trigonometry of the yaw angles (multiples of 45 degrees), in 1/TrigUnit. *)
Cos(deg) ==
    CASE deg % 360 = 0   -> 10000
      [] deg % 360 = 45  -> 7071
      [] deg % 360 = 90  -> 0
      [] deg % 360 = 135 -> -7071
      [] deg % 360 = 180 -> -10000
      [] deg % 360 = 225 -> -7071
      [] deg % 360 = 270 -> 0
      [] deg % 360 = 315 -> 7071

Sin(deg) == Cos(deg + 270)

\* Math.tan(degToRad(90 - TiltDegrees)) = tan 60 degrees, in 1/TrigUnit.
TanOfTilt == IF 90 - TiltDegrees = 60 THEN 17321 ELSE TrigUnit

\* new THREE.Vector3(x, y, z).applyQuaternion(cameraPivot.quaternion), the
\* quaternion being the yaw rotation.y about the Y axis; v in 1/TrigUnit.
applyQuaternion(v, yaw) ==
    Vec3(RoundDiv(v.x * Cos(yaw) + v.z * Sin(yaw), TrigUnit),
         v.y,
         RoundDiv(v.z * Cos(yaw) - v.x * Sin(yaw), TrigUnit))

\* vector.multiplyScalar(s): v in 1/TrigUnit, s in world units.
multiplyScalar(v, s) ==
    Vec3(RoundDiv(v.x * s, TrigUnit), RoundDiv(v.y * s, TrigUnit),
         RoundDiv(v.z * s, TrigUnit))

add(p, v) == Vec3(p.x + v.x, p.y + v.y, p.z + v.z)

---------------------------------------------------------------------------
(* Zoom. *)

\* Mutants of lerp: no interpolation, the target assigned at once, and a
\* factor of 1.1 instead of 0.1.
lerpNone(x, y) == x

lerpSnap(x, y) == y

lerpOvershoot(x, y) == x + RoundDiv((LerpDen + 1) * (y - x), LerpDen)

\* THREE.MathUtils.lerp(x, y, 0.1) = (1 - 0.1) * x + 0.1 * y.  Rounded to the
\* nearest unit, it comes to rest within half a unit of a tenth of the
\* distance, i.e. within 0.05 of y (a double comes to rest a few ulps from y).
lerp(x, y) == RoundDiv((LerpDen - 1) * x + y, LerpDen)

\* Mutant of Transitioning: a debounce threshold of 1 instead of 0.1.
TransitioningLoose(level, target) == Abs(level - target) > ZoomUnit

\* onMouseScroll's debounce test
Transitioning(level, target) == Abs(level - target) > ZoomThreshold

\* Mutants of NextZoomIndex: wrapping around at both ends, and the wheel
\* direction read the wrong way round.
NextZoomIndexWrap(idx, deltaY) ==
    IF deltaY < 0
    THEN (idx + 1) % Len(zoomLevels)
    ELSE (idx + Len(zoomLevels) - 1) % Len(zoomLevels)

NextZoomIndexInverted(idx, deltaY) ==
    IF deltaY > 0
    THEN IF idx < Len(zoomLevels) - 1 THEN idx + 1 ELSE idx
    ELSE IF idx > 0 THEN idx - 1 ELSE idx

\* onMouseScroll's index step
NextZoomIndex(idx, deltaY) ==
    IF deltaY < 0
    THEN IF idx < Len(zoomLevels) - 1 THEN idx + 1 ELSE idx
    ELSE IF idx > 0 THEN idx - 1 ELSE idx

\* Variant of calculateUnitPerCameraPixel: no tilt adjustment.
calculateUnitPerCameraPixelNoTilt(cam) ==
    LET verticalViewSize == cam.top - cam.bottom
        upcp == RoundDiv(verticalViewSize, TargetHeight)
    IN  [unitPerCameraPixel |-> upcp, xAngleAdjustedUPCP |-> upcp]

\* calculateUnitPerCameraPixel()
calculateUnitPerCameraPixel(cam) ==
    LET verticalViewSize == cam.top - cam.bottom
        upcp == RoundDiv(verticalViewSize, TargetHeight)
    IN  [unitPerCameraPixel |-> upcp,
         xAngleAdjustedUPCP |-> RoundDiv(upcp * TanOfTilt, TrigUnit)]

\* setZoom(level): the frustum for the level
FrustumOf(level) ==
    LET frustumSize == RoundDiv(BaseFrustum * WorldUnit * ZoomUnit, level)
    IN  [top |-> frustumSize, bottom |-> -frustumSize,
         left |-> -frustumSize * Aspect, right |-> frustumSize * Aspect]

---------------------------------------------------------------------------
(* Pan. *)

\* Mutant of snapToPixelGrid: the pixel count, not scaled back to a length.
snapNoRescale(vector, pixelSize) == JSRound(vector, pixelSize)

snapToPixelGrid(vector, pixelSize) == JSRound(vector, pixelSize) * pixelSize

\* updateCameraPosition(), moveSpeed = 1
updateCameraPosition(ks, ro) ==
    LET moveSpeed == OffUnit
        z1 == IF ks["w"] THEN ro.z + moveSpeed ELSE ro.z
        z2 == IF ks["s"] THEN z1 - moveSpeed ELSE z1
        x1 == IF ks["a"] THEN ro.x - moveSpeed ELSE ro.x
        x2 == IF ks["d"] THEN x1 + moveSpeed ELSE x1
    IN  Vec3(x2, ro.y, z2)

\* Variant of DrainAxis: a component of magnitude exactly 1 is not drained.
DrainAxisStrict(a) == IF Abs(a) > OffUnit THEN a - Sign(a) * OffUnit ELSE a

\* One axis of applyRenderOffset: the accumulator component left behind.
DrainAxis(a) == IF Abs(a) >= OffUnit THEN a - Sign(a) * OffUnit ELSE a

\* One axis of applyRenderOffset: the pivot after the axis' step, if any.
StepAxis(pos, a, basis, pixel) ==
    IF Abs(a) >= OffUnit
    THEN add(pos, multiplyScalar(basis, pixel * Sign(a)))
    ELSE pos

\* Mutant of SnapPivot: the depth component left as it is.
SnapPivotSkipZ(pos, upcp) ==
    Vec3(snapToPixelGrid(pos.x, upcp), snapToPixelGrid(pos.y, upcp), pos.z)

\* The pivot snap that closes the drain.
SnapPivot(pos, upcp) ==
    Vec3(snapToPixelGrid(pos.x, upcp), snapToPixelGrid(pos.y, upcp),
         snapToPixelGrid(pos.z, upcp))

\* The quad offset of the key-state variant (snapped) ...
QuadOffset(ro, upcp) ==
    LET finalOffsetX == -JSRound(ro.x, OffUnit) * upcp
        finalOffsetY == -JSRound(ro.y + ro.z, OffUnit) * upcp
    IN  Vec3(snapToPixelGrid(finalOffsetX, upcp),
             snapToPixelGrid(finalOffsetY, upcp), 0)

\* ... and of the key-event variant (not snapped).
QuadOffsetMain(ro, upcp) ==
    LET finalOffsetX == -JSRound(ro.x, OffUnit) * upcp
        finalOffsetY == -JSRound(ro.y + ro.z, OffUnit) * upcp
    IN  Vec3(finalOffsetX, finalOffsetY, 0)

\* Variant of applyRenderOffset: the pivot is not snapped.
applyRenderOffsetNoSnap(ro, pos, yaw, upcp, xadj, snapsQuad) ==
    LET right == applyQuaternion(Vec3(TrigUnit, 0, 0), yaw)
        forward == applyQuaternion(Vec3(0, 0, -TrigUnit), yaw)
        up == Vec3(0, TrigUnit, 0)
        p1 == StepAxis(pos, ro.x, right, upcp)
        p2 == StepAxis(p1, ro.z, forward, xadj)
        p3 == StepAxis(p2, ro.y, up, upcp)
        left == Vec3(DrainAxis(ro.x), DrainAxis(ro.y), DrainAxis(ro.z))
    IN  [renderOffset |-> left,
         position |-> p3,
         quad |-> IF snapsQuad THEN QuadOffset(left, upcp)
                  ELSE QuadOffsetMain(left, upcp)]

\* applyRenderOffset(): accumulator, pivot position after the three axes
\* and the snap, and the quad position (snapped in the key-state variant).
applyRenderOffset(ro, pos, yaw, upcp, xadj, snapsQuad) ==
    LET right == applyQuaternion(Vec3(TrigUnit, 0, 0), yaw)
        forward == applyQuaternion(Vec3(0, 0, -TrigUnit), yaw)
        up == Vec3(0, TrigUnit, 0)
        p1 == StepAxis(pos, ro.x, right, upcp)
        p2 == StepAxis(p1, ro.z, forward, xadj)
        p3 == StepAxis(p2, ro.y, up, upcp)
        left == Vec3(DrainAxis(ro.x), DrainAxis(ro.y), DrainAxis(ro.z))
    IN  [renderOffset |-> left,
         position |-> SnapPivot(p3, upcp),
         quad |-> IF snapsQuad THEN QuadOffset(left, upcp)
                  ELSE QuadOffsetMain(left, upcp)]


---------------------------------------------------------------------------
(* The two render passes of start(). *)

\* renderer.render(mainScene, camera) into renderTarget: the frustum and the
\* pivot pose the pass draws with.
mainPass(cam, pos, yaw) == [frustum |-> cam, position |-> pos, yaw |-> yaw]

\* renderer.render(renderScene, renderCamera) to the screen: the quad where it
\* stands, textured with the render target as it is then.
quadPass(quad, surface) == [quad |-> quad, texture |-> surface]

---------------------------------------------------------------------------
(* createRampTexture: the 256-sample step ramp of the cel shader.  The      *)
(* table is a sequence of RampSize bytes, sample i at position i + 1.       *)

RampSize == 256

\* The ramps the materials of init() are built with, and a few more bytes.
ByteValues == {0, 80, 255}

\* Breakpoints of the multi-breakpoint descriptors, in and out of the table.
RampBreakpoints == {0, 1, 64, 128, 255, 300}

\* while (values.length < breakpoints.length + 1) values.push(0)
padValues(breakpoints, values) ==
    IF Len(values) < Len(breakpoints) + 1
    THEN values \o [i \in 1..(Len(breakpoints) + 1 - Len(values)) |-> 0]
    ELSE values

\* data[i] = value on a Uint8Array: the value is stored modulo 256, and a
\* write outside 0..size-1 is ignored.
storeByte(data, i, value) ==
    IF i >= 0 /\ i < RampSize THEN [data EXCEPT ![i + 1] = value % 256] ELSE data

\* Variant of lastBreakpoint: the fill starts one sample late.
lastBreakpointNext(breakpoints) == breakpoints[Len(breakpoints)] + 1

\* breakpoints[breakpoints.length - 1], the bound of the first loop and the
\* start of the second.
lastBreakpoint(breakpoints) == breakpoints[Len(breakpoints)]

\* One iteration of the first loop at sample i, st holding
\* currentValueIndex (0-based) and the table: the index advances by at most
\* one, and only once i is past breakpoints[currentValueIndex].
bandStep(breakpoints, values, i, st) ==
    LET cvi == IF st.currentValueIndex < Len(breakpoints)
                  /\ i > breakpoints[st.currentValueIndex + 1]
               THEN st.currentValueIndex + 1 ELSE st.currentValueIndex
    IN  [currentValueIndex |-> cvi, data |-> storeByte(st.data, i, values[cvi + 1])]

\* The iterations lo, lo + 1, ..., hi - 1 of the first loop, in that order
\* (evaluated by halves, the first half before the second starts, to keep
\* the evaluation shallow; currentValueIndex never passes breakpoints.length).
RECURSIVE bandLoop(_, _, _, _, _)
bandLoop(breakpoints, values, lo, hi, st) ==
    IF hi <= lo THEN st
    ELSE IF hi = lo + 1 THEN bandStep(breakpoints, values, lo, st)
    ELSE LET mid == (lo + hi) \div 2
             half == bandLoop(breakpoints, values, lo, mid, st)
         IN  IF half.currentValueIndex <= Len(breakpoints)
             THEN bandLoop(breakpoints, values, mid, hi, half)
             ELSE half

\* The second loop: the last value from the last breakpoint to the end.
fillLoop(breakpoints, values, data) ==
    [i \in 1..RampSize |->
        IF i - 1 >= lastBreakpoint(breakpoints)
        THEN values[Len(values)] % 256 ELSE data[i]]

\* createRampTexture(breakpoints, values): the padded values array and the
\* texture returned.  No statement of the function throws for arrays of
\* integers and there is no validation: the outcome is always a texture.
\* With no breakpoint at all both loop bounds are undefined and neither
\* loop runs.
createRampTexture(breakpoints, values) ==
    LET padded == padValues(breakpoints, values)
        zeros == SubSeq([i \in 1..RampSize |-> 0], 1, RampSize)  \* new Uint8Array(size)
        data == IF Len(breakpoints) = 0 THEN zeros
                ELSE fillLoop(breakpoints, padded,
                         bandLoop(breakpoints, padded, 0, lastBreakpoint(breakpoints),
                                  [currentValueIndex |-> 0, data |-> zeros]).data)
    IN  [breakpoints |-> breakpoints, values |-> padded, data |-> data,
         outcome |-> "texture"]

---------------------------------------------------------------------------
(* State after init(): init() ends by calling start(), so the first tick   *)
(* (zoom 1 -> 1, empty accumulator, yaw 0) has run before any handler can. *)

NoKeys == [k \in PanKeys |-> FALSE]

InitialPixels == calculateUnitPerCameraPixel(FrustumOf(ZoomLevelAt(1)))

PanLimit == MaxPanPixels * InitialPixels.unitPerCameraPixel

InitProgram ==
    /\ zoomIndex = 1
    /\ zoomLevel = ZoomLevelAt(1)
    /\ targetZoomLevel = ZoomLevelAt(1)
    /\ keyState = NoKeys
    /\ renderOffset = Vec3(0, 0, 0)
    /\ camera = FrustumOf(ZoomLevelAt(1))
    /\ unitPerCameraPixel = InitialPixels.unitPerCameraPixel
    /\ xAngleAdjustedUPCP = InitialPixels.xAngleAdjustedUPCP
    /\ cameraPivot = [position |-> Vec3(0, 0, 0), rotationY |-> 0]
    /\ cameraRotation = 0
    /\ mouseAction = FALSE
    /\ previousMouseX = 0
    /\ quadMesh = Vec3(0, 0, 0)
    /\ renderTarget = mainPass(FrustumOf(ZoomLevelAt(1)), Vec3(0, 0, 0), 0)
    /\ screen = quadPass(Vec3(0, 0, 0),
                         mainPass(FrustumOf(ZoomLevelAt(1)), Vec3(0, 0, 0), 0))
    /\ nInputs = 0
    /\ pointerX = 0
    /\ lastKey = ""
    /\ indexAtTick = 1

NoSnap == [vector |-> 0, pixelSize |-> 1, once |-> 0, twice |-> 0, done |-> FALSE]

NoRamp == [breakpoints |-> <<>>, values |-> <<>>, data |-> <<>>, outcome |-> "none"]

Init == InitProgram /\ snapIO = NoSnap /\ rampIO = NoRamp

---------------------------------------------------------------------------
(* Input handlers. *)

onMouseDown(clientX) ==
    /\ mouseAction' = TRUE
    /\ previousMouseX' = clientX
    /\ UNCHANGED <<zoomVars, keyState, renderOffset, derivedVars, cameraRotation>>

onMouseUp ==
    /\ mouseAction' = FALSE
    /\ UNCHANGED <<zoomVars, keyState, renderOffset, derivedVars, cameraRotation,
                   previousMouseX>>

\* Variant of YawDelta: a displacement of exactly the threshold fires.
YawDeltaAtThreshold(deltaX) ==
    IF deltaX < 0 /\ Abs(deltaX) >= RotateThreshold THEN YawStep
    ELSE IF deltaX > 0 /\ Abs(deltaX) >= RotateThreshold THEN -YawStep
    ELSE 0

\* The yaw step of one mousemove: 0 when the threshold is not crossed.
YawDelta(deltaX) ==
    IF deltaX < 0 /\ Abs(deltaX) > RotateThreshold THEN YawStep
    ELSE IF deltaX > 0 /\ Abs(deltaX) > RotateThreshold THEN -YawStep
    ELSE 0

\* Variant of onMouseMove: the handler turns the pivot itself.
onMouseMoveTurnsPivot(clientX) ==
    LET deltaX == clientX - previousMouseX
    IN  /\ IF ~mouseAction \/ YawDelta(deltaX) = 0
           THEN UNCHANGED <<cameraRotation, previousMouseX>>
           ELSE /\ cameraRotation' = cameraRotation + YawDelta(deltaX)
                /\ previousMouseX' = clientX
        /\ Abs(cameraRotation') <= MaxYawSteps * YawStep
        /\ cameraPivot' = [cameraPivot EXCEPT !.rotationY = cameraRotation']
        /\ UNCHANGED <<zoomVars, keyState, renderOffset, camera, unitPerCameraPixel,
                       xAngleAdjustedUPCP, quadMesh, renderTarget, screen, mouseAction>>

onMouseMove(clientX) ==
    LET deltaX == clientX - previousMouseX
    IN  /\ IF ~mouseAction \/ YawDelta(deltaX) = 0
           THEN UNCHANGED <<cameraRotation, previousMouseX>>
           ELSE /\ cameraRotation' = cameraRotation + YawDelta(deltaX)
                /\ previousMouseX' = clientX
        /\ Abs(cameraRotation') <= MaxYawSteps * YawStep
        /\ UNCHANGED <<zoomVars, keyState, renderOffset, derivedVars, mouseAction>>

\* Variant of onKeyDown: the key compared without regard to case.
onKeyDownAnyCase(key) ==
    LET lower == IF key = "W" THEN "w" ELSE key
    IN  /\ keyState' = IF lower \in DOMAIN keyState
                       THEN [keyState EXCEPT ![lower] = TRUE] ELSE keyState
        /\ UNCHANGED <<zoomVars, renderOffset, derivedVars, mouseVars>>

\* Key-state variant.
onKeyDown(key) ==
    /\ keyState' = IF key \in DOMAIN keyState
                   THEN [keyState EXCEPT ![key] = TRUE] ELSE keyState
    /\ UNCHANGED <<zoomVars, renderOffset, derivedVars, mouseVars>>

onKeyUp(key) ==
    /\ keyState' = IF key \in DOMAIN keyState
                   THEN [keyState EXCEPT ![key] = FALSE] ELSE keyState
    /\ UNCHANGED <<zoomVars, renderOffset, derivedVars, mouseVars>>

\* Key-event variant (src/main.js), moveSpeed = 0.9.
KeyDownOffset(key, ro) ==
    LET moveSpeed == 9
        z1 == IF key = "w" THEN ro.z + moveSpeed ELSE ro.z
        z2 == IF key = "s" THEN z1 - moveSpeed ELSE z1
        x1 == IF key = "a" THEN ro.x - moveSpeed ELSE ro.x
        x2 == IF key = "d" THEN x1 + moveSpeed ELSE x1
    IN  Vec3(x2, ro.y, z2)

onKeyDownMain(key) ==
    /\ renderOffset' = KeyDownOffset(key, renderOffset)
    /\ Abs(renderOffset'.x) <= MaxAccum * OffUnit
    /\ Abs(renderOffset'.z) <= MaxAccum * OffUnit
    /\ UNCHANGED <<zoomVars, keyState, derivedVars, mouseVars>>

\* Mutant of onMouseScroll: the target read before the index moves.
onMouseScrollStaleTarget(deltaY) ==
    /\ IF Abs(zoomLevel - targetZoomLevel) > ZoomThreshold
       THEN UNCHANGED <<zoomIndex, targetZoomLevel>>
       ELSE /\ zoomIndex' = NextZoomIndex(zoomIndex, deltaY)
            /\ targetZoomLevel' = ZoomLevelAt(zoomIndex)
    /\ UNCHANGED <<zoomLevel, keyState, renderOffset, derivedVars, mouseVars>>

onMouseScroll(deltaY) ==
    /\ IF Transitioning(zoomLevel, targetZoomLevel)
       THEN UNCHANGED <<zoomIndex, targetZoomLevel>>
       ELSE /\ zoomIndex' = NextZoomIndex(zoomIndex, deltaY)
            /\ targetZoomLevel' = ZoomLevelAt(zoomIndex')
    /\ UNCHANGED <<zoomLevel, keyState, renderOffset, derivedVars, mouseVars>>

---------------------------------------------------------------------------
(* The tick. *)

\* Variant of PassYaw: the yaw assigned before the passes.
PassYawApplied(pivotYaw, rotation) == rotation

\* Variant of SurfaceSampled: pass 2 before pass 1.
SurfaceSampledStale(written, previous) == previous

\* The pivot yaw the two passes draw with: that of cameraPivot.rotation.y,
\* which start() assigns from cameraRotation only after both passes.
PassYaw(pivotYaw, rotation) == pivotYaw

\* The surface pass 2 samples: the one pass 1 has just written, pass 1
\* coming first.
SurfaceSampled(written, previous) == written

\* start() after requestAnimationFrame: lerp, setZoom, (updateCameraPosition,)
\* applyRenderOffset, the two render passes, then the yaw.  The render
\* passes read the state and write only the render target and the screen.
Frame(held, snapsQuad) ==
    LET level == lerp(zoomLevel, targetZoomLevel)
        cam == FrustumOf(level)
        px == calculateUnitPerCameraPixel(cam)
        out == applyRenderOffset(held, cameraPivot.position, cameraPivot.rotationY,
                                 px.unitPerCameraPixel, px.xAngleAdjustedUPCP, snapsQuad)
        pass1 == mainPass(cam, out.position,
                          PassYaw(cameraPivot.rotationY, cameraRotation))
        pass2 == quadPass(out.quad, SurfaceSampled(pass1, renderTarget))
    IN  /\ zoomLevel' = level
        /\ camera' = cam
        /\ unitPerCameraPixel' = px.unitPerCameraPixel
        /\ xAngleAdjustedUPCP' = px.xAngleAdjustedUPCP
        /\ renderOffset' = out.renderOffset
        /\ quadMesh' = out.quad
        /\ renderTarget' = pass1
        /\ screen' = pass2
        /\ cameraPivot' = [position |-> out.position, rotationY |-> cameraRotation]
        /\ Abs(out.position.x) <= PanLimit
        /\ Abs(out.position.z) <= PanLimit
        /\ UNCHANGED <<targetZoomLevel, zoomIndex, keyState, mouseVars>>

\* Key-state variant: src/unnamed/part_000
start == Frame(updateCameraPosition(keyState, renderOffset), TRUE)

\* Key-event variant: src/main.js
startMain == Frame(renderOffset, FALSE)

---------------------------------------------------------------------------
(* Specifications. *)

envVars == <<nInputs, pointerX, lastKey, indexAtTick, snapIO, rampIO>>
progVars == <<zoomVars, keyState, renderOffset, derivedVars, mouseVars>>

\* An input event and a frame, as the browser delivers them.
Event(handler) == handler /\ UNCHANGED envVars
Tick(frame) == frame /\ UNCHANGED envVars

\* An input event of a run of at most MaxInputs input events.
Counted(handler) ==
    /\ nInputs < MaxInputs
    /\ handler
    /\ nInputs' = nInputs + 1
    /\ UNCHANGED <<pointerX, lastKey, indexAtTick, snapIO, rampIO>>

ScrollEvent == \E deltaY \in DeltaYs : onMouseScroll(deltaY)
MouseDownEvent == \E x \in ClientXs : onMouseDown(x)
MouseMoveEvent == \E x \in ClientXs : onMouseMove(x)
KeyDownEvent == \E k \in Keys : onKeyDown(k)
KeyUpEvent == \E k \in Keys : onKeyUp(k)
KeyDownMainEvent == \E k \in Keys : onKeyDownMain(k)

\* Wheel events and ticks.
NextZoom == Event(ScrollEvent) \/ Tick(start)
SpecZoom == Init /\ [][NextZoom]_vars

\* The same with the ticks that requestAnimationFrame keeps scheduling.
SpecZoomLive == SpecZoom /\ WF_vars(Tick(start))

\* Keys, mouse and ticks of the key-state variant at a resting zoom.
Next == Event(KeyDownEvent) \/ Event(KeyUpEvent) \/ Event(MouseDownEvent)
        \/ Event(onMouseUp) \/ Event(MouseMoveEvent) \/ Tick(start)
Spec == Init /\ [][Next]_vars

\* Every handler of the key-state variant, wheel included, in runs of at
\* most MaxInputs input events and any number of ticks.
NextAll == Counted(KeyDownEvent) \/ Counted(KeyUpEvent) \/ Counted(MouseDownEvent)
           \/ Counted(onMouseUp) \/ Counted(MouseMoveEvent) \/ Counted(ScrollEvent)
           \/ Tick(start)
SpecAll == Init /\ [][NextAll]_vars

\* Keys and ticks of the key-event variant at a resting zoom.
NextMain == Event(KeyDownMainEvent) \/ Tick(startMain)
SpecMain == Init /\ [][NextMain]_vars

\* The end-to-end zoom scenario: three zoom-in wheel events, each delivered
\* once the zoom is Idle, and any number of ticks.
ZoomInWhenIdle ==
    /\ nInputs < 3
    /\ ~Transitioning(zoomLevel, targetZoomLevel)
    /\ onMouseScroll(-100)
    /\ nInputs' = nInputs + 1
    /\ UNCHANGED <<pointerX, lastKey, indexAtTick, snapIO, rampIO>>

NextScenario == ZoomInWhenIdle \/ Tick(start)
SpecScenario == Init /\ [][NextScenario]_vars

\* snapToPixelGrid applied once and twice to every argument of a bounded set.
InitSnap ==
    /\ InitProgram
    /\ rampIO = NoRamp
    /\ \E v \in -MaxSnapValue..MaxSnapValue, p \in 1..MaxSnapPixel :
          snapIO = [vector |-> v, pixelSize |-> p, once |-> 0, twice |-> 0,
                    done |-> FALSE]

ApplySnap ==
    /\ ~snapIO.done
    /\ snapIO' = [snapIO EXCEPT
          !.once = snapToPixelGrid(snapIO.vector, snapIO.pixelSize),
          !.twice = snapToPixelGrid(snapToPixelGrid(snapIO.vector, snapIO.pixelSize),
                                    snapIO.pixelSize),
          !.done = TRUE]
    /\ UNCHANGED <<progVars, nInputs, pointerX, lastKey, indexAtTick, rampIO>>

SpecSnap == InitSnap /\ [][ApplySnap]_vars

\* The rotation scenario: the button goes down at clientX 0 and the pointer
\* travels 85 pixels to the right, delivered as mousemove events at any
\* strictly increasing clientX, ticks running in between.
DragPress ==
    /\ nInputs = 0
    /\ onMouseDown(0)
    /\ pointerX' = 0
    /\ nInputs' = 1
    /\ UNCHANGED <<lastKey, indexAtTick, snapIO, rampIO>>

DragMove ==
    /\ mouseAction
    /\ \E x \in (pointerX + 1)..85 :
          /\ onMouseMove(x)
          /\ pointerX' = x
    /\ UNCHANGED <<nInputs, lastKey, indexAtTick, snapIO, rampIO>>

NextDrag == DragPress \/ DragMove \/ Tick(start)
SpecDrag == Init /\ [][NextDrag]_vars

\* createRampTexture applied to every single-breakpoint descriptor
\* ([b], [v0, v1]) with 0 < b <= 255.
InitRamp1 ==
    /\ InitProgram
    /\ snapIO = NoSnap
    /\ \E b \in 1..(RampSize - 1), v0 \in ByteValues, v1 \in ByteValues :
          rampIO = [NoRamp EXCEPT !.breakpoints = <<b>>, !.values = <<v0, v1>>]

ApplyRamp ==
    /\ rampIO.outcome = "none"
    /\ rampIO' = createRampTexture(rampIO.breakpoints, rampIO.values)
    /\ UNCHANGED <<progVars, nInputs, pointerX, lastKey, indexAtTick, snapIO>>

SpecRamp1 == InitRamp1 /\ [][ApplyRamp]_vars

\* createRampTexture applied to descriptors of up to MaxBreakpoints
\* breakpoints, well formed or not, each with breakpoints.length + 1 values.
InitRamp ==
    /\ InitProgram
    /\ snapIO = NoSnap
    /\ \E n \in 1..MaxBreakpoints :
          \E bs \in [1..n -> RampBreakpoints], vs \in [1..(n + 1) -> ByteValues] :
              rampIO = [NoRamp EXCEPT !.breakpoints = bs, !.values = vs]

SpecRamp == InitRamp /\ [][ApplyRamp]_vars

\* Key events of the key-state variant, the key of the last one remembered,
\* and ticks.
KeyDownSeen ==
    \E k \in Keys :
        /\ onKeyDown(k)
        /\ lastKey' = k
        /\ UNCHANGED <<nInputs, pointerX, indexAtTick, snapIO, rampIO>>

KeyUpSeen ==
    \E k \in Keys :
        /\ onKeyUp(k)
        /\ lastKey' = k
        /\ UNCHANGED <<nInputs, pointerX, indexAtTick, snapIO, rampIO>>

NextKeys == KeyDownSeen \/ KeyUpSeen \/ Tick(start)
SpecKeys == Init /\ [][NextKeys]_vars

\* Bursts of wheel events between ticks: nInputs counts the wheel events
\* delivered since the last tick (at most MaxInputs), indexAtTick remembers
\* zoomIndex as that tick left it.
WheelSeen ==
    /\ nInputs < MaxInputs
    /\ \E deltaY \in DeltaYs : onMouseScroll(deltaY)
    /\ nInputs' = nInputs + 1
    /\ UNCHANGED <<pointerX, lastKey, indexAtTick, snapIO, rampIO>>

TickSeen ==
    /\ start
    /\ nInputs' = 0
    /\ indexAtTick' = zoomIndex
    /\ UNCHANGED <<pointerX, lastKey, snapIO, rampIO>>

NextWheel == WheelSeen \/ TickSeen
SpecWheel == Init /\ [][NextWheel]_vars

\* Panning while the zoom changes: the keys d and w going down and up,
\* wheel events and ticks of the key-state variant.
PanZoomKeyDown == \E k \in {"d", "w"} : onKeyDown(k)
PanZoomKeyUp == \E k \in {"d", "w"} : onKeyUp(k)

NextPanZoom == Event(PanZoomKeyDown) \/ Event(PanZoomKeyUp) \/ Event(ScrollEvent)
               \/ Tick(start)
SpecPanZoom == Init /\ [][NextPanZoom]_vars

---------------------------------------------------------------------------
(* Properties. *)

\* The level set [0.5, 1, 2, 4] written out.
LevelSet == {ZoomUnit \div 2, ZoomUnit, 2 * ZoomUnit, 4 * ZoomUnit}

\* C1 (SpecZoom): after any interleaving of wheel events and ticks, zoomIndex
\* is within [0, zoomLevels.length - 1], targetZoomLevel is
\* zoomLevels[zoomIndex], and so an element of the level set.
ZoomIndexInRange ==
    /\ zoomIndex \in 0..(Len(zoomLevels) - 1)
    /\ targetZoomLevel = zoomLevels[zoomIndex + 1]
    /\ targetZoomLevel \in LevelSet

\* Wheel events and ticks have taken the index to the top and the zoom
\* level is on its way.
ZoomIndexAtTop ==
    /\ zoomIndex = Len(zoomLevels) - 1
    /\ zoomLevel > 2 * ZoomUnit
    /\ zoomLevel < targetZoomLevel

\* C2 (SpecZoom): no step taken while the zoom is Transitioning
\* (|zoomLevel - targetZoomLevel| > 0.1) changes zoomIndex or
\* targetZoomLevel: a wheel event that arrives then is rejected, whatever its
\* direction.
RejectedWhileTransitioning ==
    [][Abs(zoomLevel - targetZoomLevel) > ZoomThreshold
         => UNCHANGED <<zoomIndex, targetZoomLevel>>]_vars

\* A transition is under way after a zoom-out: ticks have moved zoomLevel
\* and the debounce is in force.
MidTransitionDown ==
    /\ zoomIndex = 0
    /\ zoomLevel < ZoomUnit
    /\ zoomLevel - targetZoomLevel > ZoomThreshold

\* C3 (SpecZoom): a wheel event accepted while Idle moves zoomIndex by one
\* step, +1 for deltaY < 0 unless at the last index, -1 for deltaY > 0 unless
\* at 0, staying put at either end, and sets targetZoomLevel to
\* zoomLevels[zoomIndex].
AcceptedStepsByOne ==
    [][\A deltaY \in DeltaYs \ {0} :
         (Abs(zoomLevel - targetZoomLevel) <= ZoomThreshold /\ onMouseScroll(deltaY))
           => /\ zoomIndex' = IF deltaY < 0
                              THEN (IF zoomIndex = 3 THEN 3 ELSE zoomIndex + 1)
                              ELSE (IF zoomIndex = 0 THEN 0 ELSE zoomIndex - 1)
              /\ targetZoomLevel' = zoomLevels[zoomIndex' + 1]]_vars

\* An accepted zoom-out has moved the index to 0 and the zoom has come to
\* rest there, where a further zoom-out is clamped.
RestingAtBottom ==
    /\ zoomIndex = 0
    /\ targetZoomLevel = ZoomUnit \div 2
    /\ Abs(zoomLevel - targetZoomLevel) <= ZoomThreshold

\* C4 (SpecZoomLive): if from some point on no wheel event changes the zoom
\* intent, then after finitely many ticks |zoomLevel - targetZoomLevel| is
\* below 0.1 and stays below it.
Convergence ==
    <>[][UNCHANGED <<zoomIndex, targetZoomLevel>>]_vars
      => <>[](Abs(zoomLevel - targetZoomLevel) < ZoomThreshold)

\* The zoom has converged on level 2 after a transition from level 1.
ConvergedOnTwo ==
    /\ zoomIndex = 2
    /\ zoomLevel > ZoomUnit
    /\ Abs(zoomLevel - targetZoomLevel) < ZoomThreshold

\* C5 (SpecScenario): from index 1 (level 1), three zoom-in wheel events, each
\* delivered when the zoom is Idle, leave zoomIndex = 3 and
\* targetZoomLevel = 4; all along zoomLevel only rises and never exceeds 4.
ZoomInScenario ==
    /\ [](nInputs = 3 => zoomIndex = 3 /\ targetZoomLevel = 4 * ZoomUnit)
    /\ [](zoomLevel <= 4 * ZoomUnit)
    /\ [][zoomLevel' >= zoomLevel]_vars

\* The third (clamped) zoom-in has been delivered and ticks have followed.
ThirdZoomInDone ==
    /\ nInputs = 3
    /\ zoomLevel > 3 * ZoomUnit
    /\ Abs(zoomLevel - targetZoomLevel) < ZoomThreshold \div 2

\* C6 (SpecZoom): every tick sets zoomLevel to
\* zoomLevel + 0.1 * (targetZoomLevel - zoomLevel) (to the nearest unit): it
\* moves toward the target only, does not cross it, and is not assigned the
\* target from a distance.
TickInterpolates ==
    [][Tick(start) =>
         /\ 2 * Abs(LerpDen * zoomLevel'
                    - (LerpDen * zoomLevel + (targetZoomLevel - zoomLevel))) <= LerpDen
         /\ Abs(targetZoomLevel - zoomLevel') <= Abs(targetZoomLevel - zoomLevel)
         /\ zoomLevel <= targetZoomLevel => zoomLevel' <= targetZoomLevel
         /\ zoomLevel >= targetZoomLevel => zoomLevel' >= targetZoomLevel
         /\ Abs(zoomLevel - targetZoomLevel) > ZoomThreshold
              => zoomLevel' # targetZoomLevel]_vars

\* Ticks have taken zoomLevel part of the way from 2 to 4.
PartWayToFour ==
    /\ targetZoomLevel = 4 * ZoomUnit
    /\ zoomLevel > 2 * ZoomUnit + ZoomThreshold
    /\ zoomLevel < 4 * ZoomUnit - ZoomThreshold

\* C7 (SpecZoom): zoomLevel is always within [0.5, 4], hence positive, and
\* the frustum of setZoom has half-height 10 / zoomLevel > 0 and half-width
\* 20 / zoomLevel > 0.
ZoomLevelPositive ==
    /\ zoomLevel >= ZoomUnit \div 2
    /\ zoomLevel <= 4 * ZoomUnit
    /\ camera.top > 0 /\ camera.bottom = -camera.top
    /\ camera.right > 0 /\ camera.left = -camera.right
    /\ 2 * Abs(camera.top * zoomLevel - BaseFrustum * WorldUnit * ZoomUnit) <= zoomLevel
    /\ camera.right = Aspect * camera.top

\* The zoom is at rest near the smallest level, where the frustum is largest.
NearSmallestLevel ==
    /\ targetZoomLevel = ZoomUnit \div 2
    /\ zoomLevel < ZoomUnit \div 2 + ZoomThreshold
    /\ camera.top > BaseFrustum * WorldUnit

\* C8 (SpecMain): one drain pass fully drains each axis: after a tick every
\* accumulator component has magnitude < 1, and the pivot has moved one
\* pixel-unit step for every whole unit the component held.
DrainPassFullyDrains ==
    [][Tick(startMain) =>
         /\ Abs(renderOffset'.x) < OffUnit
         /\ Abs(renderOffset'.y) < OffUnit
         /\ Abs(renderOffset'.z) < OffUnit
         /\ cameraPivot.rotationY = 0 =>
              cameraPivot'.position.x =
                  JSRound(cameraPivot.position.x
                          + Sign(renderOffset.x) * (Abs(renderOffset.x) \div OffUnit)
                            * unitPerCameraPixel',
                          unitPerCameraPixel') * unitPerCameraPixel']_vars

\* C9 (SpecAll): the pivot position's x, y and z are integer multiples of
\* the current unitPerCameraPixel, at the end of every tick and so in every
\* state a render pass or a handler sees, for every yaw and zoom state.
PivotOnPixelGrid ==
    /\ unitPerCameraPixel > 0
    /\ cameraPivot.position.x % unitPerCameraPixel = 0
    /\ cameraPivot.position.y % unitPerCameraPixel = 0
    /\ cameraPivot.position.z % unitPerCameraPixel = 0

\* The pivot has been panned off the origin on both axes, under a yaw, while
\* the zoom is in transition.
PannedYawedMidZoom ==
    /\ cameraPivot.rotationY # 0
    /\ cameraPivot.position.x # 0
    /\ cameraPivot.position.z # 0
    /\ Abs(zoomLevel - targetZoomLevel) > ZoomThreshold
    /\ zoomLevel # ZoomUnit

\* C10 (SpecSnap): snapToPixelGrid is idempotent, and its result is an
\* integer multiple of the pixel size, for every value and positive pixel
\* size.
SnapIdempotent ==
    snapIO.done =>
        /\ snapIO.twice = snapIO.once
        /\ snapIO.once % snapIO.pixelSize = 0

\* A snap that moved its argument (a tie, rounded toward +infinity).
SnapMovedATie ==
    /\ snapIO.done
    /\ snapIO.vector = -3 /\ snapIO.pixelSize = 6
    /\ snapIO.once = 0

\* C11 (SpecDrag): a drag of 85 pixels in one direction from the mousedown
\* point has produced exactly two 45-degree yaw steps when it ends, whatever
\* the mousemove events that delivered it.
DragOf85GivesTwoSteps ==
    (mouseAction /\ pointerX = 85) => Abs(cameraRotation) = 2 * YawStep

\* C12 (SpecAll): one-tick yaw latency.  Both passes of a tick draw with the
\* pivot yaw as it stood before the tick; the tick ends by setting the pivot
\* yaw to cameraRotation, and nothing but a tick changes the pivot yaw, so
\* that yaw is the value cameraRotation had when the previous tick finished.
\* A step accepted since then is not in this tick's frame, and is the yaw
\* the next tick draws with.
YawLatency ==
    [][/\ Tick(start) =>
            /\ renderTarget'.yaw = cameraPivot.rotationY
            /\ screen'.texture.yaw = cameraPivot.rotationY
            /\ cameraPivot'.rotationY = cameraRotation
            /\ cameraRotation' = cameraRotation
            /\ (cameraRotation # cameraPivot.rotationY =>
                    renderTarget'.yaw # cameraRotation)
       /\ ~Tick(start) => cameraPivot'.rotationY = cameraPivot.rotationY
      ]_vars

\* A tick has just drawn a frame with yaw 0 although a rotation step had
\* been accepted before it; the pivot now carries the step.
FrameBehindRotation ==
    /\ renderTarget.yaw = 0
    /\ screen.texture.yaw = 0
    /\ cameraPivot.rotationY # 0
    /\ cameraPivot.rotationY = cameraRotation

\* C13 (SpecAll): the order of a tick, read off what each step sees.  Pass 1
\* draws with the frustum of the zoom level interpolated in this tick and
\* with the pivot position after this tick's pan drain and snap, but with
\* the yaw from before the tick (the yaw is applied last).  Pass 2 draws the
\* quad at the offset computed in this tick and samples the surface pass 1
\* wrote in this same tick, the state being the same for both passes.
TickOrder ==
    [][Tick(start) =>
          /\ zoomLevel' = lerp(zoomLevel, targetZoomLevel)
          /\ camera' = FrustumOf(zoomLevel')
          /\ unitPerCameraPixel' = calculateUnitPerCameraPixel(camera').unitPerCameraPixel
          /\ cameraPivot'.position = SnapPivot(cameraPivot'.position, unitPerCameraPixel')
          /\ renderTarget'.frustum = camera'
          /\ renderTarget'.position = cameraPivot'.position
          /\ renderTarget'.yaw = cameraPivot.rotationY
          /\ screen'.quad = quadMesh'
          /\ screen'.texture = renderTarget'
          /\ cameraPivot'.rotationY = cameraRotation
      ]_vars

\* A tick that interpolated the zoom, moved the pivot and had a rotation
\* step pending has just run: its frame shows the new frustum and position
\* and the old yaw.
FullTickRendered ==
    /\ Abs(zoomLevel - targetZoomLevel) > ZoomThreshold
    /\ renderTarget.frustum = FrustumOf(zoomLevel)
    /\ renderTarget.position = cameraPivot.position
    /\ cameraPivot.position.x # 0
    /\ renderTarget.yaw = 0
    /\ cameraPivot.rotationY # 0
    /\ screen.texture = renderTarget

\* C14 (SpecAll): input handlers write only intent state.  A step that
\* changes the zoom level, the frustum, a pixel scale, the pivot, the quad
\* position, the render target or the screen is a tick; every other step (an
\* input handler) leaves all of them as they are and so draws nothing.
OnlyTicksWriteDerivedState ==
    [][(zoomLevel' # zoomLevel \/ derivedVars' # derivedVars) => Tick(start)]_vars

\* Intent of every kind is waiting for the next tick: a wheel target, a held
\* key and a rotation step, with the derived state still as init() left it.
IntentPending ==
    /\ targetZoomLevel # zoomLevel
    /\ \E k \in PanKeys : keyState[k]
    /\ cameraRotation # 0
    /\ zoomLevel = ZoomUnit
    /\ cameraPivot = [position |-> Vec3(0, 0, 0), rotationY |-> 0]
    /\ screen.texture = mainPass(FrustumOf(ZoomUnit), Vec3(0, 0, 0), 0)

\* C15 (SpecRamp1): for a single breakpoint b with 0 < b <= 255 and byte
\* values v0, v1, createRampTexture([b], [v0, v1]) returns a table with
\* sample[i] = v0 for i < b and sample[i] = v1 for i >= b.
SingleBreakpointRamp ==
    rampIO.outcome # "none" =>
        /\ rampIO.outcome = "texture"
        /\ Len(rampIO.data) = RampSize
        /\ \A i \in 0..(RampSize - 1) :
              rampIO.data[i + 1] = IF i < rampIO.breakpoints[1]
                                   THEN rampIO.values[1] ELSE rampIO.values[2]

\* The ramp of the box material, createRampTexture([128], [80, 255]): 80 up
\* to sample 127, 255 from sample 128.
BoxRampBuilt ==
    /\ rampIO.outcome = "texture"
    /\ rampIO.breakpoints = <<128>>
    /\ rampIO.values = <<80, 255>>
    /\ rampIO.data[127 + 1] = 80
    /\ rampIO.data[128 + 1] = 255

\* A ramp descriptor as the documentation wants it: breakpoints strictly
\* increasing and inside the table.
WellFormedRamp(breakpoints) ==
    /\ \A k \in 1..Len(breakpoints) : breakpoints[k] \in 0..(RampSize - 1)
    /\ \A k \in 1..(Len(breakpoints) - 1) : breakpoints[k] < breakpoints[k + 1]

\* The number of breakpoints <= i.
BreakpointsUpTo(breakpoints, i) ==
    Cardinality({k \in 1..Len(breakpoints) : breakpoints[k] <= i})

\* C16 (SpecRamp): for strictly increasing breakpoints inside [0, 255] and
\* breakpoints.length + 1 values, every sample i of the table is values[k],
\* k being the number of breakpoints <= i.
BandsChangeAtBreakpoints ==
    (rampIO.outcome # "none" /\ WellFormedRamp(rampIO.breakpoints)) =>
        /\ rampIO.outcome = "texture"
        /\ \A i \in 0..(RampSize - 1) :
              rampIO.data[i + 1] =
                  rampIO.values[BreakpointsUpTo(rampIO.breakpoints, i) + 1]

\* C17 (SpecRamp): createRampTexture called with breakpoints that are not
\* strictly increasing, or with a breakpoint outside the 256 samples, ends in
\* an error and returns no table.
MalformedRampFails ==
    (rampIO.outcome # "none" /\ ~WellFormedRamp(rampIO.breakpoints)) =>
        /\ rampIO.outcome = "error"
        /\ rampIO.data = <<>>

\* C18 (SpecMain): after every tick the quad position is the
\* leftover accumulator itself, negated and scaled by unitPerCameraPixel:
\* x = -(leftover lateral) * unitPerCameraPixel,
\* y = -(leftover vertical + leftover depth) * unitPerCameraPixel, z = 0.
QuadIsScaledLeftover ==
    [][Tick(startMain) =>
          /\ quadMesh'.x = RoundDiv(-renderOffset'.x * unitPerCameraPixel', OffUnit)
          /\ quadMesh'.y = RoundDiv(-(renderOffset'.y + renderOffset'.z)
                                       * unitPerCameraPixel', OffUnit)
          /\ quadMesh'.z = 0
      ]_vars

\* C19 (SpecAll): cameraRotation is always an integer multiple of 45
\* degrees.  A step that changes it changes it by exactly one step of 45
\* degrees, happens with the button held, and moves the reference point
\* previousMouseX by more than 40 pixels, to the clientX of the event, a
\* move to the right turning by -45 and a move to the left by +45.  A
\* mousemove that does not fire leaves the reference point where it was,
\* and one delivered with the button held and more than 40 pixels from the
\* reference point does fire.
YawInSteps ==
    [][/\ cameraRotation % YawStep = 0
       /\ cameraRotation' % YawStep = 0
       /\ cameraRotation' # cameraRotation =>
             /\ mouseAction /\ mouseAction'
             /\ Abs(previousMouseX' - previousMouseX) > RotateThreshold
             /\ cameraRotation' - cameraRotation =
                   -Sign(previousMouseX' - previousMouseX) * YawStep
       /\ \A x \in ClientXs : onMouseMove(x) =>
             IF mouseAction /\ Abs(x - previousMouseX) > RotateThreshold
             THEN cameraRotation' # cameraRotation /\ previousMouseX' = x
             ELSE UNCHANGED <<cameraRotation, previousMouseX>>
      ]_vars

\* Two firings of one drag: from 0 to 81 (one step to the right), then back
\* to 40 (41 pixels, one step to the left), the reference point following.
TurnedThereAndBack ==
    /\ mouseAction
    /\ previousMouseX = 40
    /\ cameraRotation = 0
    /\ cameraPivot.rotationY = -YawStep

\* C20 (SpecKeys): a keydown or keyup of a key other than w, a, s, d
\* (uppercase W included) is always accepted and leaves the key state, the
\* pan accumulator and all the rest of the program state unchanged, so the
\* ticks that follow run from the state they would have run from without it.
OtherKeysIgnored ==
    [][\A k \in Keys \ PanKeys :
          ((KeyDownSeen \/ KeyUpSeen) /\ lastKey' = k) => UNCHANGED progVars]_vars

\* W has been delivered while w was held and the pivot had been panned: w is
\* still the only key held.
UppercaseIgnoredWhilePanning ==
    /\ lastKey = "W"
    /\ keyState = [NoKeys EXCEPT !["w"] = TRUE]
    /\ cameraPivot.position.z # 0

\* The pan the next tick drains, in the key-state variant.
HeldPan == updateCameraPosition(keyState, renderOffset)

\* The next tick drains one depth unit and nothing else, at yaw 0, with the
\* zoom Idle and the pivot on the pixel grid.
DepthUnitPending ==
    /\ Abs(HeldPan.z) = OffUnit
    /\ HeldPan.x = 0 /\ HeldPan.y = 0
    /\ cameraPivot.rotationY = 0
    /\ ~Transitioning(zoomLevel, targetZoomLevel)
    /\ cameraPivot.position = SnapPivot(cameraPivot.position, unitPerCameraPixel)

AccumulatorDrainedEveryTick ==
    /\ renderOffset = Vec3(0, 0, 0)
    /\ HeldPan.x \in {-OffUnit, 0, OffUnit}
    /\ HeldPan.y = 0
    /\ HeldPan.z \in {-OffUnit, 0, OffUnit}
    /\ (keyState["w"] /\ keyState["s"] => HeldPan.z = 0)
    /\ (keyState["a"] /\ keyState["d"] => HeldPan.x = 0)
    /\ applyRenderOffset(HeldPan, cameraPivot.position, cameraPivot.rotationY,
                         unitPerCameraPixel, xAngleAdjustedUPCP, TRUE).renderOffset
          = Vec3(0, 0, 0)
    /\ quadMesh = Vec3(0, 0, 0)
    /\ screen.quad = Vec3(0, 0, 0)

\* Ticks have panned the pivot sideways and in depth, and now w, s and d are
\* held together: the accumulator is empty and the quad at rest.
PannedWithOppositeKeysHeld ==
    /\ keyState = [NoKeys EXCEPT !["w"] = TRUE, !["s"] = TRUE, !["d"] = TRUE]
    /\ cameraPivot.position.x > 0
    /\ cameraPivot.position.z # 0
    /\ renderOffset = Vec3(0, 0, 0)
    /\ screen.quad = Vec3(0, 0, 0)

\* C23 (SpecWheel): between two consecutive ticks the wheel events, however
\* many and in whatever directions, move zoomIndex by at most one step in
\* total: once the index differs from the one the last tick left, a wheel
\* event changes neither zoomIndex nor targetZoomLevel.
OneIndexStepBetweenTicks ==
    [][/\ Abs(zoomIndex - indexAtTick) <= 1
       /\ Abs(zoomIndex' - indexAtTick') <= 1
       /\ (WheelSeen /\ zoomIndex # indexAtTick) =>
              UNCHANGED <<zoomIndex, targetZoomLevel>>
      ]_vars

\* Three wheel events since the last tick, and the index one step from where
\* that tick left it.
BurstMovedOneStep ==
    /\ nInputs >= 3
    /\ zoomIndex = indexAtTick + 1
    /\ targetZoomLevel = ZoomLevelAt(zoomIndex)

\* No pan key is held and every accumulator component is below 1.
NoPanPending ==
    /\ keyState = NoKeys
    /\ Abs(renderOffset.x) < OffUnit
    /\ Abs(renderOffset.y) < OffUnit
    /\ Abs(renderOffset.z) < OffUnit

\* C24 as stated (SpecPanZoom): a tick with no pan pending leaves the pivot
\* position unchanged in every zoom state, interpolating or not.
IdlePanLeavesPivot ==
    [][(Tick(start) /\ NoPanPending) =>
          cameraPivot'.position = cameraPivot.position]_vars

\* C24 (SpecPanZoom): a tick with no pan pending snaps the pivot to the
\* pixel grid of the tick's unitPerCameraPixel and does nothing else to it.
\* The position is unchanged when the tick leaves unitPerCameraPixel as it
\* was, and when the pivot is at the origin; while zoomLevel interpolates,
\* the pivot moves to the nearest point of the new grid.
IdlePanSnapsPivot ==
    [][(Tick(start) /\ NoPanPending) =>
          /\ cameraPivot'.position =
                SnapPivot(cameraPivot.position, unitPerCameraPixel')
          /\ (unitPerCameraPixel' = unitPerCameraPixel =>
                cameraPivot'.position = cameraPivot.position)
          /\ (cameraPivot.position = Vec3(0, 0, 0) =>
                cameraPivot'.position = Vec3(0, 0, 0))
      ]_vars

\* With no key held and the zoom in transition, the pivot stands one pixel
\* of the current grid to the right: it is off the grid of zoom level 1 on
\* which it was panned.
PivotRegriddedWhileZooming ==
    /\ NoPanPending
    /\ Transitioning(zoomLevel, targetZoomLevel)
    /\ targetZoomLevel = 2 * ZoomUnit
    /\ cameraPivot.position.x = unitPerCameraPixel
    /\ unitPerCameraPixel < InitialPixels.unitPerCameraPixel

\* C25 (SpecZoom): a wheel event with deltaY = 0 leaves zoomIndex and
\* targetZoomLevel unchanged in every state, Idle or Transitioning.
ZeroDeltaIsNoIntent ==
    [][onMouseScroll(0) => UNCHANGED <<zoomIndex, targetZoomLevel>>]_vars

============================================================================
